---- MODULE Spec2Model ----
(***************************************************************************)
(* Reward-wheel jackpot game: the game engine (gameEngine), the tRPC game  *)
(* router (gameRouters) and the points ledger (gameDb) over the shared     *)
(* MySQL tables games, gameSlots and userPoints.                           *)
(*                                                                         *)
(* Node runs the handlers on one thread: the code between two awaited      *)
(* database calls is atomic, and every awaited database call is a point    *)
(* where another handler may run.  One action of this module is one        *)
(* awaited database call together with the synchronous code that follows   *)
(* it up to the next awaited database call.  `await getDb()` touches no    *)
(* shared state and is folded into the step that follows it.               *)
(***************************************************************************)
EXTENDS Integers, Sequences, FiniteSets, TLC

(* ---------------- bounds of the model ---------------- *)
\* operations (ticks and API calls) started in one behaviour
MaxOps == 2
\* balance of user 1's ledger row in the initial state
LowBalance == 30
\* games of one tier when the scheduler runs on its own
MaxGames == 2
\* calls of claimDailyReward started in one behaviour of the ledger
MaxClaims == 3
\* the last instant of the clock of the ledger, and the instants of one
\* calendar day
MaxNow == 3
DayLength == 2
\* callbacks registered on gameEvents at one time
MaxRegistrations == 2

\* handlers that may be in flight at once
Procs == {1, 2}
\* the tiers whose timers run when the scheduler runs on its own, and the
\* place of each one's callback
TickPlace == [high |-> 1]
\* user ids of the signed-in clients
Users == {1, 2}
\* tiers the scheduler and the clients work on
ActiveTiers == {"high"}
\* the bot slots already on the wheel of the high-tier game of the
\* pre-filled initial state: two ticks and part of a third have run
InitBotSlots == 1..5
\* the indices of BOT_NAMES that Math.random picks
BotNameDraws == {1}
\* the slot numbers that Math.random picks as the winning slot: a slot a
\* bot holds from the start, and the slots filled later
WinningSlotDraws == {5, 6}
\* the callbacks of the transport, and the games and tiers they subscribe to
\* and updates are published for
Handlers == {1, 2}
WatchedGames == {1, 2}
WatchedTiers == {"high", "low"}
\* the <<user, slotNumber>> requests of buySpot; slotNumber is any
\* z.number(): user 1 asks for a number taken from the start, for the last
\* number of the wheel or for the first number beyond the wheel, user 2 for
\* the last number of the wheel
BuyInputs == {<<1, 5>>, <<1, 6>>, <<1, 7>>, <<2, 6>>}

(* ---------------- program constants ---------------- *)
Tiers == {"low", "medium", "high"}

GAME_CONFIGS ==
  [low    |-> [tier |-> "low",    slotCount |-> 12, entryCost |-> 5,  edgePct |-> -2,  fillTimeMs |-> 30000],
   medium |-> [tier |-> "medium", slotCount |-> 10, entryCost |-> 11, edgePct |-> -8,  fillTimeMs |-> 30000],
   high   |-> [tier |-> "high",   slotCount |-> 6,  entryCost |-> 25, edgePct |-> -20, fillTimeMs |-> 15000]]

BOT_NAMES == <<"T", "B", "J", "P", "K", "M", "S", "L", "R", "N", "C", "D">>

\* balance and totalEarned of a ledger row created by getOrCreateUserPoints
StartingBalance == 30000

\* the bonus of applyDailyReward
DailyReward == 50000

(* ---------------- strings ---------------- *)
\* A string is a sequence of one-character strings, so that toString and
\* parseInt are computed and not assumed.
Digits == <<"0", "1", "2", "3", "4", "5", "6", "7", "8", "9">>

RECURSIVE toString(_)
toString(n) ==
  IF n < 10 THEN <<Digits[n + 1]>>
  ELSE toString(n \div 10) \o <<Digits[(n % 10) + 1]>>

DigitValue(c) == CHOOSE d \in 0..9 : Digits[d + 1] = c

IsDigit(c) == \E d \in 0..9 : Digits[d + 1] = c

\* parseInt: the value of the longest prefix of digits; NaN when it is empty.
RECURSIVE parseDigits(_, _)
parseDigits(s, acc) ==
  IF s = <<>> \/ ~IsDigit(Head(s)) THEN acc
  ELSE parseDigits(Tail(s), 10 * acc + DigitValue(Head(s)))

parseInt(s) ==
  IF s = <<>> \/ ~IsDigit(Head(s))
  THEN [isNaN |-> TRUE, value |-> 0]
  ELSE [isNaN |-> FALSE, value |-> parseDigits(s, 0)]

(* ---------------- event names of gameEvents ---------------- *)
\* "gameUpdate"
GlobalEvent == <<"g", "a", "m", "e", "U", "p", "d", "a", "t", "e">>

\* `game:${gameId}`
GameEvent(gameId) == <<"g", "a", "m", "e", ":">> \o toString(gameId)

\* `tier:${tier}`: the tier's name is the last element
TierEvent(tier) == <<"t", "i", "e", "r", ":", tier>>

\* the event names the callbacks of the model are registered under
EventNames ==
  {GlobalEvent} \cup {GameEvent(g) : g \in WatchedGames} \cup {TierEvent(t) : t \in Tiers}

(* ---------------- rows ---------------- *)
\* an unset (NULL) integer column, and an unset string column
Null == -1
NullStr == <<>>

\* variant: the new game starts in status full
NewGame_Full(tier) ==
  [tier |-> GAME_CONFIGS[tier].tier,
   slotCount |-> GAME_CONFIGS[tier].slotCount,
   entryCost |-> GAME_CONFIGS[tier].entryCost,
   edgePct |-> GAME_CONFIGS[tier].edgePct,
   status |-> "full",
   winningSlot |-> Null, winnerType |-> "null", winnerId |-> NullStr,
   payout |-> Null, houseCommission |-> Null, completedAt |-> Null]

\* the row createGame inserts
NewGame(tier) ==
  [tier |-> GAME_CONFIGS[tier].tier,
   slotCount |-> GAME_CONFIGS[tier].slotCount,
   entryCost |-> GAME_CONFIGS[tier].entryCost,
   edgePct |-> GAME_CONFIGS[tier].edgePct,
   status |-> "filling",
   winningSlot |-> Null, winnerType |-> "null", winnerId |-> NullStr,
   payout |-> Null, houseCommission |-> Null, completedAt |-> Null]

NewSlot(gameId, slotNumber, ownerType, ownerId, entryCost) ==
  [gameId |-> gameId, slotNumber |-> slotNumber, ownerType |-> ownerType,
   ownerId |-> ownerId, entryCost |-> entryCost]

\* a user without a userPoints row
NoRow == [exists |-> FALSE, balance |-> 0, totalEarned |-> 0, totalWagered |-> 0,
          lastDailyReward |-> Null]

\* the row getOrCreateUserPoints inserts
NewUserPoints ==
  [exists |-> TRUE, balance |-> StartingBalance, totalEarned |-> StartingBalance,
   totalWagered |-> 0, lastDailyReward |-> Null]

VARIABLES
  games,    \* table games: sequence of rows, the id is the index
  slots,    \* table gameSlots: sequence of rows, the id is the index
  points,   \* table userPoints: userId -> row (userId is unique)
  procs,    \* the local variables and position of every handler in flight
  now,      \* logical clock read by new Date() in spinGame
  nops,     \* operations started so far
  hist,     \* history: per game, settlements written and payouts credited;
            \* the tiers whose setInterval timer is live; exceptions caught
            \* by the ticks; per game, the ticks that have read its state
            \* since a tick found it empty, that one counted;
            \* per user, the day of the last claimDailyReward
            \* that returned and whether it overlapped no other operation;
            \* the last update given to emitGameUpdate and the calls of
            \* listeners it made; the games published as filling with a full
            \* board
  listeners \* gameEvents: event name -> the callbacks registered, in order

vars == <<games, slots, points, procs, now, nops, hist, listeners>>

(* ---------------- reading the tables ---------------- *)
GameExists(gameId) == gameId \in 1..Len(games)

\* ids of the gameSlots rows of a game among the first n rows of the table:
\* rows are only ever appended, so a result set read earlier is a prefix
SlotIdsOf(gameId, n) == {i \in 1..n : slots[i].gameId = gameId}

\* state.filledCount of getGameState
filledCount(gameId, n) == Cardinality(SlotIdsOf(gameId, n))

\* new Set(state.slots.map(s => s.slotNumber))
occupiedSlots(gameId, n) == {slots[i].slotNumber : i \in SlotIdsOf(gameId, n)}

\* state.slots.filter(s => s.ownerType === "player").length
playerSlots(gameId, n) ==
  Cardinality({i \in SlotIdsOf(gameId, n) : slots[i].ownerType = "player"})

\* the balance getUserPoints reports: a missing row is created with the
\* starting balance
BalanceOf(userId) ==
  IF points[userId].exists THEN points[userId].balance ELSE StartingBalance

(* ---------------- arithmetic of spinGame ---------------- *)
\* Math.round(n / d) for n >= 0, d > 0: halves round up
RoundDiv(n, d) == (2 * n + d) \div (2 * d)

\* variant: the payout is cut down to a multiple of 5
Payout_Truncated(slotCount, entryCost, edgePct, nSlots, nPlayer) ==
  ((nSlots * entryCost * slotCount * (100 + edgePct)) \div (nPlayer * 100 * 5)) * 5

\* rawPayout = (totalPot / (playerSlots / slotCount)) * (1 + edgePct / 100);
\* payout = Math.round(rawPayout / 5) * 5
Payout(slotCount, entryCost, edgePct, nSlots, nPlayer) ==
  RoundDiv(nSlots * entryCost * slotCount * (100 + edgePct), nPlayer * 100 * 5) * 5

\* variant: the commission is cut down to an integer
HouseCommission_Truncated(entryCost, nSlots) == (nSlots * entryCost) \div 10

\* Math.round(totalPot * 0.1)
HouseCommission(entryCost, nSlots) == RoundDiv(nSlots * entryCost, 10)

\* variant: the third of the empty slots is rounded down
BotsToAdd_Floor(emptySlots) ==
  IF emptySlots \div 3 > 1 THEN emptySlots \div 3 ELSE 1

\* botsToAdd = Math.max(1, Math.ceil(emptySlots / 3))
BotsToAdd(emptySlots) ==
  IF (emptySlots + 2) \div 3 > 1 THEN (emptySlots + 2) \div 3 ELSE 1

(* ---------------- handlers ---------------- *)
\* the local result of spinGame before the draw
NoWin == [winningSlot |-> Null, winnerType |-> "null", winnerId |-> NullStr,
          payout |-> Null, houseCommission |-> Null]

\* the GameStateUpdate payloads a handler has passed to
\* gameEvents.emitGameUpdate: how many, and the last one (slots[] is the
\* first filledCount rows of the game and is not repeated here)
NoUpdate ==
  [n |-> 0, gameId |-> 0, status |-> "none", filledCount |-> 0,
   hasResult |-> FALSE, result |-> NoWin]

\* the local variables of a handler that is not running
Idle ==
  [pc |-> "idle", op |-> "none", tier |-> "none", gameId |-> 0, userId |-> 0,
   slotNumber |-> 0, status |-> "none", seen |-> 0, i |-> 0, botsToAdd |-> 0,
   emptySlot |-> 0, ctx |-> "none", uret |-> "none",
   target |-> 0, amount |-> 0, current |-> NoRow, userBalance |-> 0,
   win |-> NoWin, result |-> "none", newBalance |-> Null, now |-> 0,
   \* history: the operation has overlapped no other one; the user's balance
   \* and the number of gameSlots rows when it started; the rows it has
   \* written since (balance updates, slots, game updates); what the last
   \* addBotEntry of the tick returned; the updates it has emitted; what
   \* its checkAndSpinIfFull returned; the botsToAdd the tick computed and
   \* the bot slots it has inserted
   solo |-> FALSE, balance0 |-> 0, slots0 |-> 0, effects |-> 0, added |-> "none",
   emitted |-> NoUpdate, spun |-> "none", planned |-> 0, bots |-> 0]

Active(p) == procs[p].pc \notin {"idle", "done"}

\* a handler ends with `result`; buySpot answers
\* newBalance: userPoints.balance - state.game.entryCost, claimDailyReward
\* answers newBalance: points.balance
Finish(l, result) ==
  [l EXCEPT !.pc = "done", !.result = result,
            !.newBalance = IF l.op = "buySpot" /\ result = "ok"
                           THEN l.userBalance - games[l.gameId].entryCost
                           ELSE IF l.op = "claimDailyReward" /\ result = "claimed"
                           THEN l.userBalance
                           ELSE Null]

\* the positions at which each local variable is in scope
InFillLoop(pc) == pc \in {"abe_game", "abe_slots", "abe_insert", "tick_updated"}
InUserPoints(pc) == pc \in {"gup_select", "gup_insert", "gup_reselect"}
InSpinGame(pc) ==
  pc \in {"spin_mark", "spin_write", "gup_select", "gup_insert", "gup_reselect",
          "uub_update", "spin_final"}

\* locals out of scope are dropped; the operation, its inputs and its
\* outcome stay with the handler
Scope(l) ==
  LET pc == l.pc
  IN  [l EXCEPT
         !.tier = IF pc \in {"goc_select", "goc_create"} THEN @ ELSE Idle.tier,
         !.i = IF InFillLoop(pc) THEN @ ELSE Idle.i,
         !.botsToAdd = IF InFillLoop(pc) THEN @ ELSE Idle.botsToAdd,
         !.emptySlot = IF pc = "abe_insert" THEN @ ELSE Idle.emptySlot,
         !.seen = IF pc \in {"spin_mark", "spin_write"} THEN @ ELSE Idle.seen,
         !.status = IF pc = "abe_slots" \/ InSpinGame(pc) THEN @ ELSE Idle.status,
         !.ctx = IF InUserPoints(pc) THEN @ ELSE Idle.ctx,
         !.target = IF InUserPoints(pc) \/ pc \in {"uub_update", "adr_update"}
                    THEN @ ELSE Idle.target,
         !.uret = IF InUserPoints(pc) \/ pc = "uub_update" THEN @ ELSE Idle.uret,
         !.amount = IF InUserPoints(pc) \/ pc = "uub_update" THEN @ ELSE Idle.amount,
         !.current = IF pc \in {"uub_update", "adr_update"} THEN @ ELSE Idle.current,
         !.now = IF l.op = "claimDailyReward" THEN @ ELSE Idle.now,
         !.win = IF InSpinGame(pc) /\ pc \notin {"spin_mark", "spin_write"}
                 THEN @ ELSE Idle.win,
         !.userBalance = IF pc # "done" THEN @ ELSE Idle.userBalance]

\* the handler's next position and locals; locals out of scope are dropped
Step(p, l) == procs' = [procs EXCEPT ![p] = Scope(l)]

\* a handler starts in the first free place with the locals l, as one of
\* at most max operations: it runs alone until another one starts next to it
BeginWithin(p, l, max) ==
  /\ ~Active(p)
  /\ \A q \in Procs : q < p => Active(q)
  /\ nops < max
  /\ nops' = nops + 1
  /\ procs' = [q \in Procs |->
                 IF q = p
                 THEN Scope([l EXCEPT !.solo = \A r \in Procs \ {p} : ~Active(r)])
                 ELSE [procs[q] EXCEPT !.solo = FALSE]]

Begin(p, l) == BeginWithin(p, l, MaxOps)

Init ==
  /\ \/ /\ games = <<>>
        /\ slots = <<>>
     \/ /\ games = <<NewGame("high")>>
        /\ slots = [n \in InitBotSlots |->
                      NewSlot(1, n, "bot", <<BOT_NAMES[1]>>, GAME_CONFIGS["high"].entryCost)]
  /\ points = [u \in Users |->
                 IF u = 1
                 THEN [NewUserPoints EXCEPT !.balance = LowBalance,
                                            !.totalWagered = StartingBalance - LowBalance]
                 ELSE NoRow]
  /\ procs = [p \in Procs |-> Idle]
  /\ now = 0
  /\ nops = 0
  /\ hist = [settled |-> [g \in 1..Len(games) |-> 0],
             credited |-> [g \in 1..Len(games) |-> 0],
             firedEmpty |-> [g \in 1..Len(games) |-> 0],
             timers |-> Tiers,
             caught |-> 0,
             claims |-> [u \in Users |-> [day |-> Null, solo |-> FALSE]],
             delivered |-> [update |-> NoUpdate, calls |-> <<>>],
             fullSeen |-> {}]
  /\ listeners = [c \in EventNames |-> <<>>]

(* ---------------- getOrCreateActiveGame, createGame ---------------- *)
\* the tick of a tier's setInterval timer fires
StartTick(p, tier) ==
  /\ tier \in hist.timers
  /\ Begin(p, [Idle EXCEPT !.pc = "goc_select", !.op = "tick", !.tier = tier])
  /\ UNCHANGED <<games, slots, points, now, hist, listeners>>

\* a client calls game.getActiveGame({tier})
StartGetActiveGame(p, tier) ==
  /\ Begin(p, [Idle EXCEPT !.pc = "goc_select", !.op = "getActiveGame", !.tier = tier])
  /\ UNCHANGED <<games, slots, points, now, hist, listeners>>

\* where the caller of getOrCreateActiveGame goes on: both callers read
\* the game state next
AfterGetOrCreate(l, gameId) ==
  [l EXCEPT !.gameId = gameId,
            !.pc = IF l.op = "tick" THEN "tick_state" ELSE "gag_state"]

\* variant: the query takes every game that is not completed
ActiveGames_NotCompleted(tier) ==
  {g \in 1..Len(games) : games[g].tier = tier /\ games[g].status # "completed"}

\* select ... where tier = ? and status in (filling, full) limit 1: the
\* query has no ORDER BY, so any matching row may be the one returned
ActiveGames(tier) ==
  {g \in 1..Len(games) : games[g].tier = tier /\ games[g].status \in {"filling", "full"}}

getOrCreateActiveGame(p) ==
  /\ procs[p].pc = "goc_select"
  /\ IF ActiveGames(procs[p].tier) # {}
     THEN \E g \in ActiveGames(procs[p].tier) : Step(p, AfterGetOrCreate(procs[p], g))
     ELSE Step(p, [procs[p] EXCEPT !.pc = "goc_create"])
  /\ UNCHANGED <<games, slots, points, now, nops, hist, listeners>>

createGame(p) ==
  /\ procs[p].pc = "goc_create"
  /\ games' = Append(games, NewGame(procs[p].tier))
  /\ hist' = [hist EXCEPT !.settled = Append(@, 0), !.credited = Append(@, 0),
                          !.firedEmpty = Append(@, 0)]
  /\ Step(p, AfterGetOrCreate([procs[p] EXCEPT !.effects = @ + 1], Len(games) + 1))
  /\ UNCHANGED <<slots, points, now, nops, listeners>>

\* getActiveGame: getGameState(gameId), then the response
getActiveGameState(p) ==
  /\ procs[p].pc = "gag_state"
  /\ Step(p, Finish([procs[p] EXCEPT !.status = games[procs[p].gameId].status,
                                     !.seen = Len(slots)],
                    IF GameExists(procs[p].gameId) THEN "ok" ELSE "Game not found"))
  /\ UNCHANGED <<games, slots, points, now, nops, hist, listeners>>

(* ---------------- gameEvents ---------------- *)
\* the payload built from the state getGameState returns now, without or
\* with the spinner's local result
GameStateUpdate(gameId, n, hasResult, result) ==
  [gameId |-> gameId, tier |-> games[gameId].tier, status |-> games[gameId].status,
   filledCount |-> filledCount(gameId, n), slotCount |-> games[gameId].slotCount,
   hasResult |-> hasResult, result |-> result]

\* the callbacks registered under an event name: none under a name nobody
\* has registered for
ListenersOf(name) == IF name \in DOMAIN listeners THEN listeners[name] ELSE <<>>

\* this.emit(name, update): every callback registered under the name is
\* called with the update, in the order of registration
Calls(name, update) ==
  [k \in 1..Len(ListenersOf(name)) |->
     [handler |-> ListenersOf(name)[k], event |-> name, update |-> update]]

\* variant: the update is not emitted under the game's event name
EmittedEvents_NoGameEvent(update) == <<GlobalEvent, TierEvent(update.tier)>>

\* the event names emitGameUpdate emits under, in the order of the code
EmittedEvents(update) ==
  <<GlobalEvent, GameEvent(update.gameId), TierEvent(update.tier)>>

\* the calls one emitGameUpdate makes
RECURSIVE CallsUnder(_, _)
CallsUnder(names, update) ==
  IF names = <<>> THEN <<>>
  ELSE Calls(Head(names), update) \o CallsUnder(Tail(names), update)

\* history: the update the last emitGameUpdate was given and the calls it
\* has made; the games an update has shown filling with a full board
Deliver(h, update) ==
  [h EXCEPT !.delivered = [update |-> update,
                           calls |-> CallsUnder(EmittedEvents(update), update)],
            !.fullSeen = IF update.status = "filling" /\ update.filledCount >= update.slotCount
                         THEN @ \cup {update.gameId}
                         ELSE @]

\* gameEvents.emitGameUpdate(update)
Emit(emitted, update) ==
  [n |-> emitted.n + 1, gameId |-> update.gameId, status |-> update.status,
   filledCount |-> update.filledCount, hasResult |-> update.hasResult,
   result |-> update.result]

(* ---------------- the fill loop of startGameLoopForTier ---------------- *)
\* the next iteration of `for (let i = 0; i < botsToAdd; i++)`
NextBot(l) ==
  IF l.i + 1 < l.botsToAdd
  THEN [l EXCEPT !.pc = "abe_game", !.i = l.i + 1]
  ELSE Finish(l, "ok")

\* getGameState(gameId) of the tick, then full -> checkAndSpinIfFull, else
\* botsToAdd and the first addBotEntry
tickState(p) ==
  /\ procs[p].pc = "tick_state"
  /\ LET l == procs[p]
         g == l.gameId
         filled == filledCount(g, Len(slots))
     IN  /\ IF ~GameExists(g) THEN Step(p, Finish(l, "ok"))
            ELSE IF filled >= games[g].slotCount
            THEN Step(p, [l EXCEPT !.pc = "cas_state", !.seen = Len(slots)])
            ELSE Step(p, [l EXCEPT !.pc = "abe_game", !.seen = Len(slots), !.i = 0,
                            !.botsToAdd = BotsToAdd(games[g].slotCount - filled),
                            !.planned = BotsToAdd(games[g].slotCount - filled)])
         /\ hist' = IF ~GameExists(g) THEN hist
                    ELSE [hist EXCEPT !.firedEmpty[g] =
                            IF filled = 0 THEN 1 ELSE IF @ > 0 THEN @ + 1 ELSE 0]
  /\ UNCHANGED <<games, slots, points, now, nops, listeners>>

(* ---------------- addBotEntry ---------------- *)
\* getGameState, first query: the games row
addBotEntryGame(p) ==
  /\ procs[p].pc = "abe_game"
  /\ LET l == procs[p]
     IN  IF ~GameExists(l.gameId)
         THEN Step(p, NextBot([l EXCEPT !.added = "false"]))
         ELSE Step(p, [l EXCEPT !.pc = "abe_slots", !.status = games[l.gameId].status])
  /\ UNCHANGED <<games, slots, points, now, nops, hist, listeners>>

\* mutant: a wheel with filledCount = slotCount still takes a bot
CanAddBot_Inclusive(status, filled, slotCount) == status = "filling" /\ filled <= slotCount

\* the preconditions of addBotEntry on the state it read
CanAddBot(status, filled, slotCount) == status = "filling" /\ filled < slotCount

\* variant: the search runs over 0..slotCount-1
LowestEmptySlot_FromZero(occupied, slotCount) ==
  IF (0..(slotCount - 1)) \ occupied = {} THEN 0
  ELSE CHOOSE i \in (0..(slotCount - 1)) \ occupied :
         \A j \in (0..(slotCount - 1)) \ occupied : i <= j

\* the first i in 1..slotCount that is not occupied; 0 stands for null
LowestEmptySlot(occupied, slotCount) ==
  IF (1..slotCount) \ occupied = {} THEN 0
  ELSE CHOOSE i \in (1..slotCount) \ occupied :
         \A j \in (1..slotCount) \ occupied : i <= j

\* getGameState, second query: the gameSlots rows; then the checks and the
\* search for an empty slot
addBotEntrySlots(p) ==
  /\ procs[p].pc = "abe_slots"
  /\ LET l == procs[p]
         g == l.gameId
         n == Len(slots)
         empty == LowestEmptySlot(occupiedSlots(g, n), games[g].slotCount)
     IN  IF CanAddBot(l.status, filledCount(g, n), games[g].slotCount) /\ empty # 0
         THEN Step(p, [l EXCEPT !.pc = "abe_insert", !.seen = n, !.emptySlot = empty])
         ELSE Step(p, NextBot([l EXCEPT !.added = "false"]))
  /\ UNCHANGED <<games, slots, points, now, nops, hist, listeners>>

\* db.insert(gameSlots) of the bot, with the name drawn by Math.random
addBotEntryInsert(p) ==
  /\ procs[p].pc = "abe_insert"
  /\ \E k \in BotNameDraws :
       slots' = Append(slots, NewSlot(procs[p].gameId, procs[p].emptySlot, "bot",
                                      <<BOT_NAMES[k]>>, games[procs[p].gameId].entryCost))
  /\ Step(p, [procs[p] EXCEPT !.pc = "tick_updated", !.effects = @ + 1, !.added = "true",
                              !.bots = @ + 1])
  /\ UNCHANGED <<games, points, now, nops, hist, listeners>>

\* getGameState after a bot was added, the update is emitted, and a full
\* wheel is spun at once
tickUpdated(p) ==
  /\ procs[p].pc = "tick_updated"
  /\ LET g == procs[p].gameId
         l == [procs[p] EXCEPT !.seen = Len(slots), !.status = games[g].status,
                               !.emitted = Emit(@, GameStateUpdate(g, Len(slots), FALSE, NoWin))]
     IN  IF filledCount(g, Len(slots)) >= games[g].slotCount
         THEN Step(p, [l EXCEPT !.pc = "cas_state"])
         ELSE Step(p, NextBot(l))
  /\ hist' = Deliver(hist, GameStateUpdate(procs[p].gameId, Len(slots), FALSE, NoWin))
  /\ UNCHANGED <<games, slots, points, now, nops, listeners>>

(* ---------------- checkAndSpinIfFull, spinGame ---------------- *)
\* mutant: the wheel counts as full only beyond slotCount
IsFull_Strict(filled, slotCount) == filled > slotCount

\* variant: every wheel counts as full
IsFull_Always(filled, slotCount) == TRUE

\* `state.filledCount < state.game.slotCount` is false
IsFull(filled, slotCount) == ~(filled < slotCount)

\* getGameState of checkAndSpinIfFull; a wheel that is not full ends the
\* caller (buySpot answers, the tick returns)
checkAndSpinIfFull(p) ==
  /\ procs[p].pc = "cas_state"
  /\ LET l == procs[p]
         g == l.gameId
     IN  IF GameExists(g) /\ IsFull(filledCount(g, Len(slots)), games[g].slotCount)
         THEN Step(p, [l EXCEPT !.pc = "spin_state", !.seen = Len(slots)])
         ELSE Step(p, Finish([l EXCEPT !.spun = "false"], "ok"))
  /\ UNCHANGED <<games, slots, points, now, nops, hist, listeners>>

\* getGameState of spinGame: `state`, which the draw and the payout use
spinGameState(p) ==
  /\ procs[p].pc = "spin_state"
  /\ LET l == procs[p]
     IN  IF GameExists(l.gameId)
         THEN Step(p, [l EXCEPT !.pc = "spin_mark", !.seen = Len(slots),
                                !.status = games[l.gameId].status])
         ELSE Step(p, Finish([l EXCEPT !.spun = "false"], "ok"))
  /\ UNCHANGED <<games, slots, points, now, nops, hist, listeners>>

\* variant: the update to spinning also clears the game's edge
spinGameMark_ClearsEdge(p) ==
  /\ procs[p].pc = "spin_mark"
  /\ games' = [games EXCEPT ![procs[p].gameId].status = "spinning",
                            ![procs[p].gameId].edgePct = 0]
  /\ Step(p, [procs[p] EXCEPT !.pc = "spin_write", !.effects = @ + 1])
  /\ UNCHANGED <<slots, points, now, nops, hist, listeners>>

\* db.update(games).set({ status: "spinning" })
spinGameMark(p) ==
  /\ procs[p].pc = "spin_mark"
  /\ games' = [games EXCEPT ![procs[p].gameId].status = "spinning"]
  /\ Step(p, [procs[p] EXCEPT !.pc = "spin_write", !.effects = @ + 1])
  /\ UNCHANGED <<slots, points, now, nops, hist, listeners>>

\* variant: the winning number is drawn one too high
Draws_OffByOne(gameId, n) ==
  {d \in {w + 1 : w \in WinningSlotDraws} \X (SlotIdsOf(gameId, n) \cup {0}) :
     IF d[2] = 0
     THEN \A i \in SlotIdsOf(gameId, n) : slots[i].slotNumber # d[1]
     ELSE slots[d[2]].slotNumber = d[1]}

\* the outcomes of the draw on `state`: the winning number w in
\* 1..slotCount and the row state.slots.find returns for it (0: none).
\* The rows come back in no stated order, so with two rows at one number
\* either may be the one found.
Draws(gameId, n) ==
  {d \in (WinningSlotDraws \cap 1..games[gameId].slotCount) \X (SlotIdsOf(gameId, n) \cup {0}) :
     IF d[2] = 0
     THEN \A i \in SlotIdsOf(gameId, n) : slots[i].slotNumber # d[1]
     ELSE slots[d[2]].slotNumber = d[1]}

\* variant: the payout is computed for any winner on a board with players
SpinResult_PaysAnyWinner(gameId, n, w, i) ==
  LET game == games[gameId]
      nSlots == filledCount(gameId, n)
      nPlayer == playerSlots(gameId, n)
  IN  [winningSlot |-> w,
       winnerType |-> IF i = 0 THEN "house" ELSE slots[i].ownerType,
       winnerId |-> IF i = 0 THEN <<"h", "o", "u", "s", "e">> ELSE slots[i].ownerId,
       payout |-> IF nPlayer > 0
                  THEN Payout(game.slotCount, game.entryCost, game.edgePct, nSlots, nPlayer)
                  ELSE 0,
       houseCommission |-> HouseCommission(game.entryCost, nSlots)]

\* winnerType, winnerId, payout and houseCommission for a draw
SpinResult(gameId, n, w, i) ==
  LET game == games[gameId]
      nSlots == filledCount(gameId, n)
      nPlayer == playerSlots(gameId, n)
      winnerType == IF i = 0 THEN "house" ELSE slots[i].ownerType
      payout == IF i # 0 /\ nPlayer > 0 /\ winnerType = "player"
                THEN Payout(game.slotCount, game.entryCost, game.edgePct, nSlots, nPlayer)
                ELSE 0
  IN  [winningSlot |-> w,
       winnerType |-> winnerType,
       winnerId |-> IF i = 0 THEN <<"h", "o", "u", "s", "e">> ELSE slots[i].ownerId,
       payout |-> payout,
       houseCommission |-> HouseCommission(game.entryCost, nSlots)]

\* variant: a winnerId that is not a number makes the settlement throw
\* after the write to completed
spinGameWrite_ThrowsOnNaN(p) ==
  /\ procs[p].pc = "spin_write"
  /\ \E d \in Draws(procs[p].gameId, procs[p].seen) :
       LET l == procs[p]
           g == l.gameId
           win == SpinResult(g, l.seen, d[1], d[2])
           id == parseInt(win.winnerId)
       IN  /\ games' = [games EXCEPT ![g] =
                          [@ EXCEPT !.winningSlot = win.winningSlot,
                                    !.winnerType = win.winnerType,
                                    !.winnerId = win.winnerId,
                                    !.payout = IF win.winnerType = "player" THEN win.payout ELSE 0,
                                    !.houseCommission = win.houseCommission,
                                    !.status = "completed",
                                    !.completedAt = now + 1]]
           /\ IF win.winnerType = "player" /\ ~id.isNaN
              THEN Step(p, [l EXCEPT !.pc = "gup_select", !.ctx = "update", !.win = win,
                                     !.target = id.value, !.amount = win.payout,
                                     !.uret = "spin_final", !.effects = @ + 1])
              ELSE IF win.winnerType = "player"
              THEN Step(p, Finish([l EXCEPT !.win = win, !.effects = @ + 1], "error"))
              ELSE Step(p, [l EXCEPT !.pc = "spin_final", !.win = win, !.effects = @ + 1])
           /\ hist' = [hist EXCEPT !.settled[g] = @ + 1]
  /\ now' = now + 1
  /\ UNCHANGED <<slots, points, nops, listeners>>

\* the draw, the result written with status completed, and the start of
\* the credit when a player won.  The draw reads only `state` and is
\* seen by nobody before this write, so it is taken here.
spinGameWrite(p) ==
  /\ procs[p].pc = "spin_write"
  /\ \E d \in Draws(procs[p].gameId, procs[p].seen) :
       LET l == procs[p]
           g == l.gameId
           win == SpinResult(g, l.seen, d[1], d[2])
           id == parseInt(win.winnerId)
       IN  /\ games' = [games EXCEPT ![g] =
                          [@ EXCEPT !.winningSlot = win.winningSlot,
                                    !.winnerType = win.winnerType,
                                    !.winnerId = win.winnerId,
                                    !.payout = IF win.winnerType = "player" THEN win.payout ELSE 0,
                                    !.houseCommission = win.houseCommission,
                                    !.status = "completed",
                                    !.completedAt = now + 1]]
           /\ IF win.winnerType = "player" /\ ~id.isNaN
              THEN Step(p, [l EXCEPT !.pc = "gup_select", !.ctx = "update", !.win = win,
                                     !.target = id.value, !.amount = win.payout,
                                     !.uret = "spin_final", !.effects = @ + 1])
              ELSE Step(p, [l EXCEPT !.pc = "spin_final", !.win = win, !.effects = @ + 1])
           /\ hist' = [hist EXCEPT !.settled[g] = @ + 1]
  /\ now' = now + 1
  /\ UNCHANGED <<slots, points, nops, listeners>>

\* getGameState for the final update, which is emitted; spinGame returns
\* true and its caller ends
spinGameFinal(p) ==
  /\ procs[p].pc = "spin_final"
  /\ Step(p, Finish([procs[p] EXCEPT
                       !.spun = "true",
                       !.seen = Len(slots),
                       !.status = games[procs[p].gameId].status,
                       !.emitted = Emit(@, GameStateUpdate(procs[p].gameId, Len(slots),
                                                           TRUE, procs[p].win))], "ok"))
  /\ hist' = Deliver(hist, GameStateUpdate(procs[p].gameId, Len(slots), TRUE, procs[p].win))
  /\ UNCHANGED <<games, slots, points, now, nops, listeners>>

(* ---------------- getOrCreateUserPoints, updateUserBalance ---------------- *)
\* `userPoints.balance < state.game.entryCost`
InsufficientBalance(balance, entryCost) == balance < entryCost

\* the calendar day of an instant: new Date(y, m, d) of its local date
Day(t) == t \div DayLength

\* variant: a reward is refused only at the very instant of the last one
RewardedToday_SameInstant(lastDailyReward, t) ==
  lastDailyReward # Null /\ lastDailyReward = t

\* `points.lastDailyReward` is set and its date is today's
RewardedToday(lastDailyReward, t) ==
  lastDailyReward # Null /\ Day(lastDailyReward) = Day(t)

\* what the caller of getOrCreateUserPoints does with the row: buySpot
\* checks the balance and calls updateUserBalance, updateUserBalance keeps
\* the row as `current` for its update, applyDailyReward reads the clock and
\* returns false or goes on to its update, claimDailyReward answers
AfterUserPoints(l, row) ==
  CASE l.ctx = "check" ->
         IF InsufficientBalance(row.balance, games[l.gameId].entryCost)
         THEN Finish(l, "Insufficient balance")
         ELSE [l EXCEPT !.pc = "gup_select", !.ctx = "update", !.userBalance = row.balance,
                        !.target = l.userId, !.amount = 0 - games[l.gameId].entryCost,
                        !.uret = "buy_insert"]
    [] l.ctx = "reward" ->
         IF RewardedToday(row.lastDailyReward, now)
         THEN Finish([l EXCEPT !.now = now], "already claimed")
         ELSE [l EXCEPT !.pc = "adr_update", !.current = row, !.now = now]
    [] l.ctx = "balance" ->
         Finish([l EXCEPT !.userBalance = row.balance], "claimed")
    [] OTHER -> [l EXCEPT !.pc = "uub_update", !.current = row]

\* history: a claimDailyReward that has returned is noted for its user
NoteClaim(h, l) ==
  IF l.op = "claimDailyReward" /\ l.pc = "done"
  THEN [h EXCEPT !.claims[l.userId] = [day |-> Day(l.now), solo |-> l.solo]]
  ELSE h

\* select ... from userPoints where userId = ? limit 1
getOrCreateUserPoints(p) ==
  /\ procs[p].pc = "gup_select"
  /\ IF points[procs[p].target].exists
     THEN LET l == AfterUserPoints(procs[p], points[procs[p].target])
          IN  Step(p, l) /\ hist' = NoteClaim(hist, l)
     ELSE Step(p, [procs[p] EXCEPT !.pc = "gup_insert"]) /\ UNCHANGED hist
  /\ UNCHANGED <<games, slots, points, now, nops, listeners>>

\* db.insert(userPoints): userId is unique, a second row for the user is
\* refused and the insert throws; buySpot rethrows, a tick catches
getOrCreateUserPointsInsert(p) ==
  /\ procs[p].pc = "gup_insert"
  /\ IF points[procs[p].target].exists
     THEN LET l == Finish(procs[p], IF procs[p].op = "tick" THEN "caught" ELSE "error")
          IN  /\ Step(p, l)
              /\ hist' = IF procs[p].op = "tick" THEN [hist EXCEPT !.caught = @ + 1]
                         ELSE NoteClaim(hist, l)
          /\ UNCHANGED points
     ELSE /\ points' = [points EXCEPT ![procs[p].target] = NewUserPoints]
          /\ Step(p, [procs[p] EXCEPT !.pc = "gup_reselect", !.effects = @ + 1])
          /\ UNCHANGED hist
  /\ UNCHANGED <<games, slots, now, nops, listeners>>

\* the select after the insert
getOrCreateUserPointsReselect(p) ==
  /\ procs[p].pc = "gup_reselect"
  /\ LET l == AfterUserPoints(procs[p], points[procs[p].target])
     IN  Step(p, l) /\ hist' = NoteClaim(hist, l)
  /\ UNCHANGED <<games, slots, points, now, nops, listeners>>

\* variant: a credit raises the balance and leaves totalEarned
UpdatedPoints_BalanceOnly(row, current, amount) ==
  [row EXCEPT !.balance = current.balance + amount,
              !.totalWagered = IF amount < 0 THEN current.totalWagered - amount
                               ELSE current.totalWagered]

\* variant: a debit is added to totalWagered with its sign
UpdatedPoints_SignedWager(row, current, amount) ==
  [row EXCEPT !.balance = current.balance + amount,
              !.totalEarned = IF amount > 0 THEN current.totalEarned + amount
                              ELSE current.totalEarned,
              !.totalWagered = IF amount < 0 THEN current.totalWagered + amount
                               ELSE current.totalWagered]

\* the row updateUserBalance writes from the row it read
UpdatedPoints(row, current, amount) ==
  [row EXCEPT !.balance = current.balance + amount,
              !.totalEarned = IF amount > 0 THEN current.totalEarned + amount
                              ELSE current.totalEarned,
              !.totalWagered = IF amount < 0 THEN current.totalWagered - amount
                               ELSE current.totalWagered]

\* db.update(userPoints).set({...}).where(userId = ?)
updateUserBalance(p) ==
  /\ procs[p].pc = "uub_update"
  /\ LET l == procs[p]
     IN  /\ points' = [points EXCEPT ![l.target] = UpdatedPoints(@, l.current, l.amount)]
         /\ hist' = IF l.uret = "spin_final"
                    THEN [hist EXCEPT !.credited[l.gameId] = @ + 1]
                    ELSE hist
         /\ Step(p, [l EXCEPT !.pc = l.uret, !.effects = @ + 1])
  /\ UNCHANGED <<games, slots, now, nops, listeners>>

(* ---------------- gameRouter.claimDailyReward, applyDailyReward ---------------- *)
\* a signed-in client calls game.claimDailyReward()
StartClaimDailyReward(p, userId) ==
  /\ BeginWithin(p, [Idle EXCEPT !.pc = "gup_select", !.op = "claimDailyReward",
                                 !.userId = userId, !.ctx = "reward", !.target = userId,
                                 !.balance0 = BalanceOf(userId)], MaxClaims)
  /\ UNCHANGED <<games, slots, points, now, hist, listeners>>

\* the row applyDailyReward writes from the row it read
RewardedPoints(row, current, t) ==
  [row EXCEPT !.balance = current.balance + DailyReward,
              !.totalEarned = current.totalEarned + DailyReward,
              !.lastDailyReward = t]

\* db.update(userPoints).set({balance, totalEarned, lastDailyReward: now});
\* applyDailyReward returns true and the router calls getUserPoints
applyDailyReward(p) ==
  /\ procs[p].pc = "adr_update"
  /\ LET l == procs[p]
     IN  /\ points' = [points EXCEPT ![l.target] = RewardedPoints(@, l.current, l.now)]
         /\ Step(p, [l EXCEPT !.pc = "gup_select", !.ctx = "balance", !.effects = @ + 1])
  /\ UNCHANGED <<games, slots, now, nops, hist, listeners>>

\* time passes
clockAdvances ==
  /\ now < MaxNow
  /\ now' = now + 1
  /\ UNCHANGED <<games, slots, points, procs, nops, hist, listeners>>

(* ---------------- gameRouter.buySpot ---------------- *)
\* a signed-in client calls game.buySpot({gameId, slotNumber}); the game id
\* may be one that does not exist
StartBuySpot(p, userId, gameId, slotNumber) ==
  /\ Begin(p, [Idle EXCEPT !.pc = "buy_state", !.op = "buySpot", !.userId = userId,
                           !.gameId = gameId, !.slotNumber = slotNumber,
                           !.balance0 = BalanceOf(userId), !.slots0 = Len(slots)])
  /\ UNCHANGED <<games, slots, points, now, hist, listeners>>

\* state.slots.some(s => s.slotNumber === input.slotNumber)
SlotTaken(occupied, slotNumber) == slotNumber \in occupied

\* getGameState, the Game-not-found and Slot-already-taken checks, and the
\* call of getUserPoints
buySpotState(p) ==
  /\ procs[p].pc = "buy_state"
  /\ LET l == procs[p]
         g == l.gameId
     IN  IF ~GameExists(g) THEN Step(p, Finish(l, "Game not found"))
         ELSE IF SlotTaken(occupiedSlots(g, Len(slots)), l.slotNumber)
         THEN Step(p, Finish(l, "Slot already taken"))
         ELSE Step(p, [l EXCEPT !.pc = "gup_select", !.ctx = "check", !.target = l.userId,
                                !.seen = Len(slots), !.status = games[g].status])
  /\ UNCHANGED <<games, slots, points, now, nops, hist, listeners>>

\* mutant: the insert is refused when the number is taken by now, after
\* the debit
buySpotInsert_TakenAfterDebit(p) ==
  /\ procs[p].pc = "buy_insert"
  /\ LET l == procs[p]
     IN  IF l.slotNumber \in occupiedSlots(l.gameId, Len(slots))
         THEN /\ Step(p, Finish(l, "Slot already taken"))
              /\ UNCHANGED slots
         ELSE /\ slots' = Append(slots, NewSlot(l.gameId, l.slotNumber, "player",
                                                toString(l.userId), games[l.gameId].entryCost))
              /\ Step(p, [l EXCEPT !.pc = "cas_state", !.effects = @ + 1])
  /\ UNCHANGED <<games, points, now, nops, hist, listeners>>

\* db.insert(gameSlots) of the player, then checkAndSpinIfFull
buySpotInsert(p) ==
  /\ procs[p].pc = "buy_insert"
  /\ LET l == procs[p]
     IN  /\ slots' = Append(slots, NewSlot(l.gameId, l.slotNumber, "player",
                                           toString(l.userId), games[l.gameId].entryCost))
         /\ Step(p, [l EXCEPT !.pc = "cas_state", !.effects = @ + 1])
  /\ UNCHANGED <<games, points, now, nops, hist, listeners>>

(* ---------------- store failures in a tick ---------------- *)
\* the positions of a tick at which the awaited database call is not
\* inside the try/catch of getGameState: a rejected call there throws out
\* of the engine function
AtThrowingCall(pc) ==
  pc \in {"goc_select", "goc_create", "abe_insert", "spin_mark", "spin_write",
          "gup_select", "gup_insert", "gup_reselect", "uub_update"}

\* variant: the exception leaves the callback, and the unhandled rejection
\* ends the process with all its timers
storeFailure_Uncaught(p) ==
  /\ procs[p].op = "tick"
  /\ AtThrowingCall(procs[p].pc)
  /\ Step(p, Finish(procs[p], "uncaught"))
  /\ hist' = [hist EXCEPT !.timers = {}]
  /\ UNCHANGED <<games, slots, points, now, nops, listeners>>

\* the awaited database call of a tick rejects: the exception reaches the
\* catch of the setInterval callback, which logs it; the callback returns
storeFailure(p) ==
  /\ procs[p].op = "tick"
  /\ AtThrowingCall(procs[p].pc)
  /\ Step(p, Finish(procs[p], "caught"))
  /\ hist' = [hist EXCEPT !.caught = @ + 1]
  /\ UNCHANGED <<games, slots, points, now, nops, listeners>>

(* ---------------- the system ---------------- *)
Next ==
  \E p \in Procs :
    \/ \E t \in ActiveTiers : StartTick(p, t)
    \/ \E t \in ActiveTiers : StartGetActiveGame(p, t)
    \/ \E b \in BuyInputs, g \in 1..(Len(games) + 1) : StartBuySpot(p, b[1], g, b[2])
    \/ getOrCreateActiveGame(p)
    \/ createGame(p)
    \/ getActiveGameState(p)
    \/ tickState(p)
    \/ addBotEntryGame(p)
    \/ addBotEntrySlots(p)
    \/ addBotEntryInsert(p)
    \/ tickUpdated(p)
    \/ checkAndSpinIfFull(p)
    \/ spinGameState(p)
    \/ spinGameMark(p)
    \/ spinGameWrite(p)
    \/ spinGameFinal(p)
    \/ getOrCreateUserPoints(p)
    \/ getOrCreateUserPointsInsert(p)
    \/ getOrCreateUserPointsReselect(p)
    \/ updateUserBalance(p)
    \/ buySpotState(p)
    \/ buySpotInsert(p)
    \/ storeFailure(p)

Spec == Init /\ [][Next]_vars

(* ---------------- the event bus on its own ---------------- *)
\* callbacks registered under all event names
Registrations(ls) ==
  LET RECURSIVE Sum(_)
      Sum(names) == IF names = {} THEN 0
                    ELSE LET c == CHOOSE x \in names : TRUE
                         IN  Len(ls[c]) + Sum(names \ {c})
  IN  Sum(DOMAIN ls)

\* this.on(name, callback): the callback is added at the end, whether or
\* not it is registered already
on(name, callback) == [listeners EXCEPT ![name] = Append(@, callback)]

\* the list without the instance of the callback added last, if any
RECURSIVE RemoveLast(_, _)
RemoveLast(list, callback) ==
  IF list = <<>> THEN <<>>
  ELSE IF list[Len(list)] = callback THEN SubSeq(list, 1, Len(list) - 1)
  ELSE Append(RemoveLast(SubSeq(list, 1, Len(list) - 1), callback), list[Len(list)])

\* this.off(name, callback)
off(name, callback) == [listeners EXCEPT ![name] = RemoveLast(@, callback)]

onGameUpdate(callback) ==
  /\ Registrations(listeners) < MaxRegistrations
  /\ listeners' = on(GlobalEvent, callback)
  /\ UNCHANGED <<games, slots, points, procs, now, nops, hist>>

onGameStateChange(gameId, callback) ==
  /\ Registrations(listeners) < MaxRegistrations
  /\ listeners' = on(GameEvent(gameId), callback)
  /\ UNCHANGED <<games, slots, points, procs, now, nops, hist>>

onTierUpdate(tier, callback) ==
  /\ Registrations(listeners) < MaxRegistrations
  /\ listeners' = on(TierEvent(tier), callback)
  /\ UNCHANGED <<games, slots, points, procs, now, nops, hist>>

offGameUpdate(callback) ==
  /\ listeners' = off(GlobalEvent, callback)
  /\ UNCHANGED <<games, slots, points, procs, now, nops, hist>>

offGameStateChange(gameId, callback) ==
  /\ listeners' = off(GameEvent(gameId), callback)
  /\ UNCHANGED <<games, slots, points, procs, now, nops, hist>>

\* the engine calls gameEvents.emitGameUpdate(update) for a game of a tier
emitGameUpdate(gameId, tier) ==
  /\ hist' = Deliver(hist, [gameId |-> gameId, tier |-> tier, status |-> "filling",
                            filledCount |-> 0, slotCount |-> GAME_CONFIGS[tier].slotCount,
                            hasResult |-> FALSE, result |-> NoWin])
  /\ UNCHANGED <<games, slots, points, procs, now, nops, listeners>>

EventNext ==
  \/ \E h \in Handlers :
       \/ onGameUpdate(h)
       \/ offGameUpdate(h)
       \/ \E g \in WatchedGames : onGameStateChange(g, h) \/ offGameStateChange(g, h)
       \/ \E t \in WatchedTiers : onTierUpdate(t, h)
  \/ \E g \in WatchedGames, t \in WatchedTiers : emitGameUpdate(g, t)

EventSpec == Init /\ [][EventNext]_vars

(* ---------------- the ledger on its own ---------------- *)
\* the clients claim their daily reward, at any time of any day
LedgerNext ==
  \/ \E p \in Procs :
       \/ \E u \in Users : StartClaimDailyReward(p, u)
       \/ getOrCreateUserPoints(p)
       \/ getOrCreateUserPointsInsert(p)
       \/ getOrCreateUserPointsReselect(p)
       \/ applyDailyReward(p)
  \/ clockAdvances

LedgerSpec == Init /\ [][LedgerNext]_vars

(* ---------------- the scheduler on its own ---------------- *)
\* games of a tier
GamesOf(tier) == {g \in 1..Len(games) : games[g].tier = tier}

\* The timers run for as long as the process: the ticks of this
\* specification are not counted in nops.  The callback of a tier runs in
\* the tier's own place, next to the callbacks of the other tiers, and has
\* ended when the tier's timer fires again; a tier is given MaxGames games.
StartTickLive(p, tier) ==
  /\ tier \in hist.timers
  /\ p = TickPlace[tier]
  /\ ~Active(p)
  /\ ActiveGames(tier) # {} \/ Cardinality(GamesOf(tier)) < MaxGames
  /\ procs' = [q \in Procs |->
                 IF q = p
                 THEN Scope([Idle EXCEPT !.pc = "goc_select", !.op = "tick", !.tier = tier,
                                         !.solo = \A r \in Procs \ {p} : ~Active(r)])
                 ELSE [procs[q] EXCEPT !.solo = FALSE]]
  /\ UNCHANGED <<games, slots, points, now, nops, hist, listeners>>

\* the steps of the tick that handler p runs
TickStep(p) ==
  \/ getOrCreateActiveGame(p)
  \/ createGame(p)
  \/ tickState(p)
  \/ addBotEntryGame(p)
  \/ addBotEntrySlots(p)
  \/ addBotEntryInsert(p)
  \/ tickUpdated(p)
  \/ checkAndSpinIfFull(p)
  \/ spinGameState(p)
  \/ spinGameMark(p)
  \/ spinGameWrite(p)
  \/ spinGameFinal(p)

LiveNext ==
  \E p \in Procs :
    \/ \E t \in DOMAIN TickPlace : StartTickLive(p, t)
    \/ TickStep(p)

\* setInterval fires every tier's callback again and again, and with no
\* store failure every awaited database call of a callback returns
LiveSpec ==
  /\ Init
  /\ [][LiveNext]_vars
  /\ \A t \in DOMAIN TickPlace : WF_vars(StartTickLive(TickPlace[t], t))
  /\ \A p \in Procs : WF_vars(TickStep(p))

(* ======================= the claims ======================= *)
GameIds == 1..Len(games)

\* C1: in every reachable state each tier has at most one game whose
\* status is filling or full (concurrent getOrCreateActiveGame calls that
\* find no active game create one game between them).
C1_OneActiveGamePerTier ==
  \A tier \in Tiers : Cardinality(ActiveGames(tier)) <= 1

\* C2: in every reachable state no game has two gameSlots rows with the
\* same slotNumber.
C2_SlotNumbersUnique ==
  \A i, j \in 1..Len(slots) :
    (i # j /\ slots[i].gameId = slots[j].gameId) => slots[i].slotNumber # slots[j].slotNumber

\* C3: every game is settled at most once: at most one caller writes a
\* result for it and at most one payout is credited for it.
C3_SettledAtMostOnce ==
  \A g \in GameIds : hist.settled[g] <= 1 /\ hist.credited[g] <= 1

\* C4: a game's status only moves filling -> (full ->) spinning ->
\* completed, and a completed game's row is never changed again.
C4_StatusMovesForward ==
  [][\A g \in GameIds :
       /\ games'[g].status # games[g].status =>
            <<games[g].status, games'[g].status>> \in
              {<<"filling", "full">>, <<"filling", "spinning">>,
               <<"full", "spinning">>, <<"spinning", "completed">>}
       /\ games[g].status = "completed" => games'[g] = games[g]]_vars

\* C5: spinGame invoked on a game that is already completed is a no-op:
\* none of its steps changes the game's row or any ledger row.
C5_SpinOfCompletedIsNoOp ==
  [][\A p \in Procs :
       (/\ procs[p].pc \in {"spin_mark", "spin_write", "uub_update"}
        /\ procs[p].pc = "uub_update" => procs[p].uret = "spin_final"
        /\ procs[p].status = "completed"
        /\ procs'[p].pc # procs[p].pc)
       => (games' = games /\ points' = points)]_vars

\* C6: two buySpot calls for the same (gameId, slotNumber) do not both
\* succeed.
C6_OneBuyerPerSlot ==
  \A p, q \in Procs :
    (/\ p # q
     /\ procs[p].pc = "done" /\ procs[q].pc = "done"
     /\ procs[p].op = "buySpot" /\ procs[q].op = "buySpot"
     /\ procs[p].gameId = procs[q].gameId
     /\ procs[p].slotNumber = procs[q].slotNumber)
    => ~(procs[p].result = "ok" /\ procs[q].result = "ok")

\* the entry costs of the player slots a user owns among the first n rows
RECURSIVE StakedBy(_, _)
StakedBy(userId, n) ==
  IF n = 0 THEN 0
  ELSE StakedBy(userId, n - 1)
       + (IF slots[n].ownerType = "player" /\ slots[n].ownerId = toString(userId)
          THEN slots[n].entryCost ELSE 0)

\* what the ledger has debited from a user for purchases since the
\* initial state
DebitedFrom(userId) ==
  IF points[userId].exists
  THEN points[userId].totalWagered - (IF userId = 1 THEN StartingBalance - LowBalance ELSE 0)
  ELSE 0

\* C7: when no buySpot call is in flight, every user's purchase debits
\* equal the sum of entryCost over the player slots the user owns.
C7_DebitsMatchSlots ==
  (\A p \in Procs : ~(Active(p) /\ procs[p].op = "buySpot"))
  => \A u \in Users : DebitedFrom(u) = StakedBy(u, Len(slots))

BuySpotFailures == {"Game not found", "Slot already taken", "Insufficient balance"}

\* C8: a buySpot call that fails with Game not found, Slot already taken
\* or Insufficient balance has written nothing: no balance update, no
\* slot, no game update.
C8_FailedBuySpotHasNoEffect ==
  \A p \in Procs :
    (procs[p].pc = "done" /\ procs[p].op = "buySpot" /\ procs[p].result \in BuySpotFailures)
    => procs[p].effects = 0

C8_Witness ==
  \E p \in Procs :
    /\ procs[p].pc = "done" /\ procs[p].op = "buySpot"
    /\ procs[p].result = "Insufficient balance"
    /\ GameExists(procs[p].gameId)
    /\ BalanceOf(procs[p].userId) < games[procs[p].gameId].entryCost
    /\ ~SlotTaken(occupiedSlots(procs[p].gameId, Len(slots)), procs[p].slotNumber)

\* the payout the settlement of a game credited to a user
CreditedBy(gameId, userId) ==
  IF /\ games[gameId].status = "completed"
     /\ games[gameId].winnerType = "player"
     /\ games[gameId].winnerId = toString(userId)
  THEN games[gameId].payout
  ELSE 0

\* C9: a successful buySpot that overlapped no other operation has
\* debited exactly entryCost (next to the payout of the settlement it
\* ran, if the buyer won it), has appended exactly one slot with the
\* requested number, ownerType player, the user id as a string and the
\* game's entryCost, and leaves a wheel it filled completed.
C9_BuySpotAlone ==
  \A p \in Procs :
    LET l == procs[p]
        g == l.gameId
    IN  (l.pc = "done" /\ l.op = "buySpot" /\ l.result = "ok" /\ l.solo)
        => /\ Len(slots) = l.slots0 + 1
           /\ slots[Len(slots)] =
                [gameId |-> g, slotNumber |-> l.slotNumber, ownerType |-> "player",
                 ownerId |-> toString(l.userId), entryCost |-> games[g].entryCost]
           /\ BalanceOf(l.userId) = l.balance0 - games[g].entryCost + CreditedBy(g, l.userId)
           /\ filledCount(g, Len(slots)) >= games[g].slotCount
                => games[g].status = "completed"

C9_Witness ==
  \E p \in Procs :
    /\ procs[p].pc = "done" /\ procs[p].op = "buySpot" /\ procs[p].result = "ok"
    /\ procs[p].solo
    /\ procs[p].slotNumber = games[procs[p].gameId].slotCount
    /\ games[procs[p].gameId].status = "completed"
    /\ games[procs[p].gameId].winnerType = "bot"

\* C10: addBotEntry returns false, inserts no slot and changes no game or
\* ledger row when the game is unknown, the status it read is not
\* filling, or the wheel it read is full.
C10_AddBotEntryRefuses ==
  [][\A p \in Procs :
       LET l == procs[p]
       IN  (\/ /\ l.pc = "abe_game" /\ procs'[p].pc # "abe_game"
               /\ ~GameExists(l.gameId)
            \/ /\ l.pc = "abe_slots" /\ procs'[p].pc # "abe_slots"
               /\ \/ l.status # "filling"
                  \/ filledCount(l.gameId, Len(slots)) >= games[l.gameId].slotCount)
           => /\ procs'[p].added = "false"
              /\ procs'[p].pc # "abe_insert"
              /\ UNCHANGED <<games, slots, points>>]_vars

C10_Witness ==
  \E p \in Procs :
    /\ procs[p].pc = "done" /\ procs[p].op = "tick" /\ procs[p].added = "false"
    /\ games[procs[p].gameId].status # "filling"

\* the step handler p takes from position pc (the start of another
\* handler changes nops and is not a step of p)
Leaves(p, pc) == procs[p].pc = pc /\ procs'[p] # procs[p] /\ nops' = nops

\* the step of spinGame that writes the result of handler p's draw
Settles(p) == Leaves(p, "spin_write") /\ procs'[p].pc \in {"gup_select", "spin_final"}

\* C11: a successful addBotEntry appends exactly one slot: ownerType bot,
\* ownerId one of BOT_NAMES, the game's entryCost, at the smallest number of
\* 1..slotCount unoccupied in the state it read; it changes no game and no
\* ledger row; so a game without player slots always has exactly the
\* numbers 1..filledCount occupied.
C11_BotsFillFrontToBack ==
  [][\A p \in Procs :
       /\ (Leaves(p, "abe_slots") /\ procs'[p].pc = "abe_insert")
          => LET g == procs[p].gameId
                 free == (1..games[g].slotCount) \ occupiedSlots(g, Len(slots))
             IN  /\ procs'[p].emptySlot \in free
                 /\ \A j \in free : procs'[p].emptySlot <= j
       /\ (Leaves(p, "abe_insert") /\ procs'[p].pc = "tick_updated")
          => LET g == procs[p].gameId
                 row == slots'[Len(slots')]
             IN  /\ Len(slots') = Len(slots) + 1
                 /\ SubSeq(slots', 1, Len(slots)) = slots
                 /\ row.gameId = g
                 /\ row.slotNumber = procs[p].emptySlot
                 /\ row.ownerType = "bot"
                 /\ \E k \in 1..Len(BOT_NAMES) : row.ownerId = <<BOT_NAMES[k]>>
                 /\ row.entryCost = games[g].entryCost
                 /\ games' = games
                 /\ points' = points
       /\ \A g \in 1..Len(games') :
            playerSlots(g, Len(slots))' = 0
            => occupiedSlots(g, Len(slots))' = 1..(filledCount(g, Len(slots))')]_vars

\* rawPayout = n / d as a fraction, for a board of nSlots slots of which
\* nPlayer are players'
RawPayoutNum(slotCount, entryCost, edgePct, nSlots) ==
  nSlots * entryCost * slotCount * (100 + edgePct)

RawPayoutDen(nPlayer) == nPlayer * 100

\* v is a multiple of 5 at most 2.5 away from n / d
NearestFive(v, n, d) ==
  /\ v % 5 = 0
  /\ 2 * v * d - 2 * n <= 5 * d
  /\ 2 * n - 2 * v * d <= 5 * d

\* the payout formula over the boards of the three tiers: up to one slot
\* beyond slotCount, every number of player slots
PayoutIsNearestFive ==
  \A t \in Tiers :
    LET c == GAME_CONFIGS[t]
    IN  \A nSlots \in 1..(c.slotCount + 1) : \A nPlayer \in 1..nSlots :
          NearestFive(Payout(c.slotCount, c.entryCost, c.edgePct, nSlots, nPlayer),
                      RawPayoutNum(c.slotCount, c.entryCost, c.edgePct, nSlots),
                      RawPayoutDen(nPlayer))

\* C12: when the winning slot is a player's, the persisted payout is
\* ((filledCount * entryCost) / (playerSlots / slotCount)) * (1 + edgePct/100)
\* rounded to the nearest multiple of 5, on the state spinGame read; a
\* high-tier board of 6 player slots pays 120.
C12_PlayerPayout ==
  [][/\ PayoutIsNearestFive
     /\ Payout(6, 25, -20, 6, 6) = 120
     /\ \A p \in Procs :
          (Settles(p) /\ games'[procs[p].gameId].winnerType = "player")
          => LET g == procs[p].gameId
                 n == procs[p].seen
             IN  NearestFive(games'[g].payout,
                             RawPayoutNum(games[g].slotCount, games[g].entryCost,
                                          games[g].edgePct, filledCount(g, n)),
                             RawPayoutDen(playerSlots(g, n)))]_vars

C12_Witness ==
  \E g \in GameIds :
    /\ games[g].status = "completed" /\ games[g].winnerType = "player"
    /\ games[g].payout = 720
    /\ playerSlots(g, Len(slots)) = 1 /\ filledCount(g, Len(slots)) = 6

\* C13: when the winning slot is a bot's or unoccupied, the persisted
\* payout is 0, the payout of the published result is 0, and no step of
\* the settlement changes a ledger row, whatever the number of player
\* slots.
C13_NoPayoutUnlessPlayerWins ==
  [][\A p \in Procs :
       /\ (Settles(p) /\ games'[procs[p].gameId].winnerType \in {"bot", "house"})
          => /\ games'[procs[p].gameId].payout = 0
             /\ procs'[p].win.payout = 0
             /\ procs'[p].pc = "spin_final"
             /\ points' = points
       /\ (Leaves(p, "spin_final") /\ procs[p].win.winnerType \in {"bot", "house"})
          => /\ procs'[p].emitted.hasResult
             /\ procs'[p].emitted.result.payout = 0
             /\ points' = points]_vars

C13_Witness ==
  \E p \in Procs :
    /\ procs[p].pc = "done" /\ procs[p].emitted.hasResult
    /\ procs[p].emitted.result.winnerType = "bot"
    /\ procs[p].emitted.result.payout = 0
    /\ playerSlots(procs[p].gameId, Len(slots)) > 0
    /\ games[procs[p].gameId].payout = 0

\* v is the integer nearest to n / 10, halves up
RoundedTenth(v, n) == n - 5 < 10 * v /\ 10 * v <= n + 5

\* the commission formula over the boards of the three tiers
CommissionIsRoundedTenth ==
  \A t \in Tiers :
    \A nSlots \in 0..(GAME_CONFIGS[t].slotCount + 1) :
      RoundedTenth(HouseCommission(GAME_CONFIGS[t].entryCost, nSlots),
                   nSlots * GAME_CONFIGS[t].entryCost)

\* C14: in every settlement houseCommission is 10% of filledCount *
\* entryCost rounded to the nearest integer, whoever wins; 15 for a full
\* high-tier board, 6 for a full low-tier board.
C14_HouseCommission ==
  [][/\ CommissionIsRoundedTenth
     /\ HouseCommission(GAME_CONFIGS["high"].entryCost, GAME_CONFIGS["high"].slotCount) = 15
     /\ HouseCommission(GAME_CONFIGS["low"].entryCost, GAME_CONFIGS["low"].slotCount) = 6
     /\ \A p \in Procs :
          Settles(p)
          => LET g == procs[p].gameId
             IN  RoundedTenth(games'[g].houseCommission,
                              filledCount(g, procs[p].seen) * games[g].entryCost)]_vars

C14_Witness ==
  \E g \in GameIds :
    /\ games[g].status = "completed"
    /\ filledCount(g, Len(slots)) = 7
    /\ games[g].houseCommission = 18

\* C15: when a spinGame that overlapped no other operation has returned
\* true, the game is completed with winningSlot, winnerType, winnerId,
\* payout, houseCommission and completedAt set; and when a player won, the
\* credit has raised the winner's balance and totalEarned by exactly the
\* persisted payout.
C15_SpinGameAlone ==
  [][\A p \in Procs :
       LET l == procs[p]
           g == l.gameId
       IN  /\ (Leaves(p, "spin_final") /\ l.solo /\ procs'[p].emitted.hasResult)
              => /\ games'[g].status = "completed"
                 /\ games'[g].winningSlot # Null
                 /\ games'[g].winnerType \in {"player", "bot", "house"}
                 /\ games'[g].winnerId # NullStr
                 /\ games'[g].payout # Null
                 /\ games'[g].houseCommission # Null
                 /\ games'[g].completedAt # Null
           /\ (/\ Settles(p) /\ l.solo
               /\ games'[g].winnerType = "player")
              => /\ procs'[p].pc = "gup_select"
                 /\ procs'[p].uret = "spin_final"
                 /\ toString(procs'[p].target) = games'[g].winnerId
                 /\ procs'[p].amount = games'[g].payout
           /\ (Leaves(p, "gup_select") /\ l.solo /\ l.uret = "spin_final")
              => procs'[p].pc = "uub_update" /\ procs'[p].current = points[l.target]
           /\ (Leaves(p, "uub_update") /\ l.solo /\ l.uret = "spin_final")
              => /\ toString(l.target) = games[g].winnerId
                 /\ points'[l.target].balance = points[l.target].balance + games[g].payout
                 /\ points'[l.target].totalEarned =
                      points[l.target].totalEarned + games[g].payout
                 /\ points'[l.target].totalWagered = points[l.target].totalWagered
                 /\ \A u \in Users \ {l.target} : points'[u] = points[u]]_vars

C15_Witness ==
  \E p \in Procs :
    /\ procs[p].pc = "done" /\ procs[p].solo /\ procs[p].emitted.hasResult
    /\ games[procs[p].gameId].status = "completed"
    /\ games[procs[p].gameId].winnerType = "player"
    /\ games[procs[p].gameId].payout > 0
    /\ hist.credited[procs[p].gameId] = 1

\* C16: in every settlement the winning number lies in 1..slotCount; if a
\* slot of the state spinGame read has that number, winnerType and
\* winnerId are that slot's ownerType and ownerId; if none has, the
\* winner is the house with winnerId "house" and payout 0.
C16_WinnerIsOwnerOfWinningSlot ==
  [][\A p \in Procs :
       Settles(p)
       => LET g == procs[p].gameId
              w == games'[g].winningSlot
              at == {i \in SlotIdsOf(g, procs[p].seen) : slots[i].slotNumber = w}
          IN  /\ w \in 1..games[g].slotCount
              /\ at # {} => \E i \in at : /\ games'[g].winnerType = slots[i].ownerType
                                          /\ games'[g].winnerId = slots[i].ownerId
              /\ at = {} => /\ games'[g].winnerType = "house"
                            /\ games'[g].winnerId = <<"h", "o", "u", "s", "e">>
                            /\ games'[g].payout = 0]_vars

C16_Witness ==
  \E g \in GameIds :
    /\ games[g].status = "completed"
    /\ games[g].winnerType = "house"
    /\ games[g].winningSlot \notin occupiedSlots(g, Len(slots))
    /\ playerSlots(g, Len(slots)) > 0

\* C17: a GameStateUpdate is published after every state-changing
\* operation on a game: a tick that has added a bot and a successful
\* buySpot, whether or not it filled the board, have each emitted one.
C17_UpdateAfterEveryChange ==
  \A p \in Procs :
    /\ (procs[p].pc = "done" /\ procs[p].op = "tick" /\ procs[p].added = "true")
       => procs[p].emitted.n >= 1
    /\ (procs[p].pc = "done" /\ procs[p].op = "buySpot" /\ procs[p].result = "ok")
       => procs[p].emitted.n >= 1

\* C18: every published update that carries a result has status
\* completed, and the updates of the fill loop carry no result.
C18_ResultOnlyWhenCompleted ==
  \A p \in Procs :
    /\ procs[p].emitted.hasResult => procs[p].emitted.status = "completed"
    /\ InFillLoop(procs[p].pc) => ~procs[p].emitted.hasResult

\* C19: an exception raised by a database call of a tick is caught in the
\* tick: the callback returns, no timer is lost, so that later ticks of
\* every tier fire, and no table and no other handler is touched.
C19_TickCatchesExceptions ==
  [][/\ hist'.timers = Tiers
     /\ \A p \in Procs :
          (/\ procs[p].op = "tick" /\ Active(p)
           /\ procs'[p].pc = "done" /\ procs'[p].result # "ok")
          => /\ procs'[p].result = "caught"
             /\ hist'.caught = hist.caught + 1
             /\ UNCHANGED <<games, slots, points>>
             /\ \A q \in Procs \ {p} : procs'[q] = procs[q]]_vars

C19_Witness ==
  \E p \in Procs :
    /\ hist.caught >= 1
    /\ procs[p].op = "tick" /\ procs[p].solo /\ Active(p)

\* game g exists and is completed
Completed(g) == GameExists(g) /\ games[g].status = "completed"

\* C20: with the ticks of a tier weakly fair and no store failure, every
\* game that becomes the tier's active game is eventually completed, no
\* player buying a slot.
C20_EveryGameCompletes ==
  \A g \in 1..(MaxGames * Cardinality(DOMAIN TickPlace)) :
    (GameExists(g) /\ g \in ActiveGames(games[g].tier)) ~> Completed(g)

C20_Witness ==
  \E p \in Procs :
    /\ procs[p].pc = "done" /\ procs[p].op = "tick"
    /\ procs[p].emitted.n = 2 /\ procs[p].emitted.hasResult
    /\ Completed(procs[p].gameId)
    /\ games[procs[p].gameId].winnerType = "bot"
    /\ playerSlots(procs[p].gameId, Len(slots)) = 0
    /\ nops = 0

\* a handler returns in this step
Returns(p) == procs[p].pc \notin {"idle", "done"} /\ procs'[p].pc = "done"

\* C21: claimDailyReward(userId) called twice on the same calendar day
\* returns true the first time and false the second, and the user's balance
\* and totalEarned go up by the bonus exactly once; a call on a later
\* calendar day returns true again.  The calls are taken one after the other:
\* a call that overlaps no other operation follows the user's previous call,
\* which overlapped none either.
C21_DailyRewardOncePerDay ==
  [][\A p \in Procs :
       LET l == procs[p]
           after == procs'[p]
           u == l.userId
           prev == hist.claims[u]
       IN  /\ (l.op = "claimDailyReward" /\ Returns(p) /\ l.solo) =>
                 /\ (prev.solo /\ prev.day = Day(after.now)) =>
                       /\ after.result = "already claimed"
                       /\ points'[u].balance = l.balance0
                       /\ points' = points
                 /\ (prev.day = Null \/ (prev.solo /\ prev.day < Day(after.now))) =>
                       /\ after.result = "claimed"
                       /\ points'[u].balance = l.balance0 + DailyReward
                       /\ after.newBalance = l.balance0 + DailyReward
                       /\ Day(points'[u].lastDailyReward) = Day(after.now)
           /\ (l.op = "claimDailyReward" /\ Leaves(p, "adr_update") /\ l.solo) =>
                 /\ points'[u].balance = points[u].balance + DailyReward
                 /\ points'[u].totalEarned = points[u].totalEarned + DailyReward
                 /\ points'[u].totalWagered = points[u].totalWagered
                 /\ \A v \in Users \ {u} : points'[v] = points[v]]_vars

\* user 1 has called three times, one call after the other, on two days: the
\* bonus was granted twice, the last time on the second day
C21_Witness ==
  /\ nops = MaxClaims
  /\ ~points[2].exists
  /\ points[1].balance = LowBalance + 2 * DailyReward
  /\ hist.claims[1] = [day |-> 1, solo |-> TRUE]
  /\ \E p \in Procs :
       /\ procs[p].pc = "done"
       /\ procs[p].op = "claimDailyReward"
       /\ procs[p].result \in {"claimed", "already claimed"}
       /\ procs[p].solo

\* C22: updateUserBalance(userId, delta) sets balance to the previous
\* balance plus delta; a positive delta adds delta to totalEarned and leaves
\* totalWagered, a negative delta adds |delta| to totalWagered and leaves
\* totalEarned; and reading the balance of a user with no record creates one
\* with the starting balance.  The previous balance is that of the row the
\* call read, which is the row of the table when no other write of the row
\* came between the read and the write.
C22_AdjustBalance ==
  [][\A p \in Procs :
       LET l == procs[p]
           u == l.target
           delta == l.amount
       IN  /\ (Leaves(p, "uub_update") /\ procs'[p].pc = l.uret) =>
                 /\ points'[u].balance = l.current.balance + delta
                 /\ points'[u].lastDailyReward = points[u].lastDailyReward
                 /\ \A v \in Users \ {u} : points'[v] = points[v]
                 /\ points[u] = l.current =>
                       /\ points'[u].balance = points[u].balance + delta
                       /\ delta > 0 =>
                             /\ points'[u].totalEarned = points[u].totalEarned + delta
                             /\ points'[u].totalWagered = points[u].totalWagered
                       /\ delta < 0 =>
                             /\ points'[u].totalWagered = points[u].totalWagered - delta
                             /\ points'[u].totalEarned = points[u].totalEarned
           /\ (Leaves(p, "gup_insert") /\ procs'[p].pc = "gup_reselect") =>
                 /\ ~points[u].exists
                 /\ points'[u].exists
                 /\ points'[u].balance = StartingBalance
                 /\ \A v \in Users \ {u} : points'[v] = points[v]
           /\ Leaves(p, "gup_select") => points' = points]_vars

\* user 2 had no record, was given one to buy a slot, was debited the entry
\* cost and credited a payout
C22_Witness ==
  /\ points[2].exists
  /\ points[2].totalWagered = GAME_CONFIGS["high"].entryCost
  /\ points[2].totalEarned > StartingBalance
  /\ points[2].balance = points[2].totalEarned - points[2].totalWagered

C24_SlotNumbersInRange ==
  \A i \in 1..Len(slots) : slots[i].slotNumber \in 1..games[slots[i].gameId].slotCount

\* C25: in every reachable state no user's ledger balance is negative: a
\* purchase is debited only when the balance at the time of the debit covers
\* it, under any interleaving of buySpot calls of the same user.
C25_BalanceNeverNegative ==
  \A u \in Users : points[u].balance >= 0

\* C26: checkAndSpinIfFull(gameId) returns false and changes nothing when
\* the game is unknown or filledCount < slotCount; otherwise it invokes
\* spinGame(gameId) and returns what spinGame returns.
C26_CheckAndSpinIfFull ==
  [][\A p \in Procs :
       LET l == procs[p]
           g == l.gameId
       IN  /\ Leaves(p, "cas_state") =>
                 IF ~GameExists(g) \/ filledCount(g, Len(slots)) < games[g].slotCount
                 THEN /\ procs'[p].pc = "done"
                      /\ procs'[p].spun = "false"
                      /\ UNCHANGED <<games, slots, points>>
                 ELSE /\ procs'[p].pc = "spin_state"
                      /\ procs'[p].spun = "none"
           /\ (Leaves(p, "spin_state") /\ procs'[p].pc = "done") => procs'[p].spun = "false"
           /\ (Leaves(p, "spin_final") /\ procs'[p].pc = "done") => procs'[p].spun = "true"
           /\ procs'[p].spun # l.spun =>
                 \/ l.pc \in {"cas_state", "spin_state", "spin_final"}
                 \/ procs'[p].spun = "none"]_vars

\* a buySpot has left the wheel short of full: its checkAndSpinIfFull has
\* returned false and the game is as it was, filling and without a result
C26_Witness ==
  \E p \in Procs :
    /\ procs[p].pc = "done" /\ procs[p].op = "buySpot" /\ procs[p].result = "ok"
    /\ procs[p].spun = "false"
    /\ filledCount(procs[p].gameId, Len(slots)) < games[procs[p].gameId].slotCount
    /\ games[procs[p].gameId] = NewGame(games[procs[p].gameId].tier)

NthSlot(g, k) ==
  CHOOSE i \in SlotIdsOf(g, Len(slots)) :
    Cardinality({j \in SlotIdsOf(g, Len(slots)) : j <= i}) = k

\* C28: within a tick every bot insertion is followed, before the tick's
\* next insertion, by the publication of an update with the new filledCount;
\* when an insertion makes filledCount reach slotCount the tick spins the
\* game at once and adds no further bot; so the observers see the update of
\* the full board, still filling, before a completed update of that game.
C28_FullBoardSeenBeforeCompleted ==
  [][\A p \in Procs :
       LET l == procs[p]
           after == procs'[p]
           g == l.gameId
       IN  /\ Leaves(p, "abe_insert") => after.pc \in {"tick_updated", "done"}
           /\ Leaves(p, "tick_updated") =>
                 /\ after.emitted.n = l.emitted.n + 1
                 /\ after.emitted.gameId = g
                 /\ after.emitted.filledCount = filledCount(g, Len(slots))
                 /\ ~after.emitted.hasResult
                 /\ filledCount(g, Len(slots)) >= games[g].slotCount => after.pc = "cas_state"
           /\ (l.op = "tick" /\ l.pc = "cas_state" /\ nops' = nops) =>
                 after.pc \in {"cas_state", "spin_state", "done"}
           /\ (nops' = nops /\ after.emitted # l.emitted /\ after.emitted.status = "completed"
                /\ filledCount(g, Len(slots)) >= games[g].slotCount
                /\ slots[NthSlot(g, games[g].slotCount)].ownerType = "bot") =>
                 g \in hist.fullSeen]_vars

\* the tier a tick in flight works on: its argument, and later the tier of
\* the game it was given
TickTier(p) ==
  IF procs[p].tier # Idle.tier THEN procs[p].tier ELSE games[procs[p].gameId].tier

\* C29: at most one tick of a tier is in flight at any time: the tier's
\* next tick does not start while its previous tick is suspended on a call
\* of the store or of the ledger.
C29_OneTickPerTier ==
  \A t \in Tiers :
    Cardinality({p \in Procs : Active(p) /\ procs[p].op = "tick" /\ TickTier(p) = t}) <= 1

\* C30: the scheduler fills all the slots of a tier's wheel within one
\* fillTimeMs window: a game that is empty when a tick fires is full and
\* spun no later than the tier's next tick, that is, when the tick that
\* follows the one that found the game empty has returned.
C30_FilledWithinOneWindow ==
  \A p \in Procs :
    (/\ procs[p].pc = "done" /\ procs[p].op = "tick" /\ procs[p].result = "ok"
     /\ GameExists(procs[p].gameId)
     /\ hist.firedEmpty[procs[p].gameId] >= 2)
    => Completed(procs[p].gameId)

\* C31: when the tier has no game in status filling or full (its game was
\* completed), getOrCreateActiveGame creates a game with a fresh id, status
\* filling, no slots, no result field set and the slotCount, entryCost and
\* edgePct of the tier's config; when its query finds an active game of the
\* tier, it returns that game's id and creates nothing.
C31_GetOrCreateActiveGame ==
  [][\A p \in Procs :
       LET l == procs[p]
           after == procs'[p]
           id == Len(games) + 1
       IN  /\ (Leaves(p, "goc_select") /\ after.pc # "done") =>
                 /\ games' = games
                 /\ IF ActiveGames(l.tier) # {}
                    THEN /\ after.gameId \in ActiveGames(l.tier)
                         /\ after.pc \in {"tick_state", "gag_state"}
                    ELSE after.pc = "goc_create"
           /\ (Leaves(p, "goc_create") /\ after.pc # "done") =>
                 /\ Len(games') = id
                 /\ \A g \in 1..Len(games) : games'[g] = games[g]
                 /\ after.gameId = id
                 /\ games'[id].tier = l.tier
                 /\ games'[id].status = "filling"
                 /\ games'[id].slotCount = GAME_CONFIGS[l.tier].slotCount
                 /\ games'[id].entryCost = GAME_CONFIGS[l.tier].entryCost
                 /\ games'[id].edgePct = GAME_CONFIGS[l.tier].edgePct
                 /\ games'[id].winningSlot = Null /\ games'[id].winnerType = "null"
                 /\ games'[id].winnerId = NullStr /\ games'[id].payout = Null
                 /\ games'[id].houseCommission = Null /\ games'[id].completedAt = Null
                 /\ slots' = slots
                 /\ filledCount(id, Len(slots)) = 0
           /\ games' # games /\ Len(games') # Len(games) =>
                 \E q \in Procs : Leaves(q, "goc_create")]_vars

\* the first high-tier game is completed and a later call has created the
\* second one, which is filling and has no slot yet
C31_Witness ==
  /\ Len(games) = 2
  /\ Completed(1)
  /\ games[2].tier = games[1].tier
  /\ games[2].status = "filling"
  /\ filledCount(2, Len(slots)) = 0

\* C32: a game settled through checkAndSpinIfFull, by a tick or by buySpot,
\* has a slot at its winning number, so its winnerType is never house.
C32_NoHouseWin ==
  \A g \in GameIds :
    Completed(g) =>
      /\ games[g].winnerType # "house"
      /\ games[g].winningSlot \in occupiedSlots(g, Len(slots))

\* C33: no step changes the tier, slotCount, entryCost or edgePct of an
\* existing game, and no step changes or removes an existing slot: the
\* slots only grow.
C33_ConfigAndSlotsAreKept ==
  [][/\ Len(games') >= Len(games)
     /\ \A g \in 1..Len(games) :
          /\ games'[g].tier = games[g].tier
          /\ games'[g].slotCount = games[g].slotCount
          /\ games'[g].entryCost = games[g].entryCost
          /\ games'[g].edgePct = games[g].edgePct
     /\ Len(slots') >= Len(slots)
     /\ \A i \in 1..Len(slots) : slots'[i] = slots[i]]_vars

\* a game has gone from filling to completed and gained slots on the way,
\* and still has the configuration of its tier
C33_Witness ==
  /\ Completed(1)
  /\ filledCount(1, Len(slots)) > Cardinality(InitBotSlots)
  /\ games[1].slotCount = GAME_CONFIGS["high"].slotCount
  /\ games[1].entryCost = GAME_CONFIGS["high"].entryCost
  /\ games[1].edgePct = GAME_CONFIGS["high"].edgePct

(* ---------------- a stored owner id that is not a number ---------------- *)
\* gameSlots.ownerId is a varchar(64): an owner id that does not start with
\* a digit
UnparsableOwnerId == <<"x">>

\* the store holds a high-tier game with bots on slots 1..4 and, on slot 5,
\* a player row whose ownerId is not a number
InitUnparsableOwner ==
  /\ games = <<NewGame("high")>>
  /\ slots = [n \in InitBotSlots |->
                IF n = 5
                THEN NewSlot(1, n, "player", UnparsableOwnerId, GAME_CONFIGS["high"].entryCost)
                ELSE NewSlot(1, n, "bot", <<BOT_NAMES[1]>>, GAME_CONFIGS["high"].entryCost)]
  /\ points = [u \in Users |->
                 IF u = 1
                 THEN [NewUserPoints EXCEPT !.balance = LowBalance,
                                            !.totalWagered = StartingBalance - LowBalance]
                 ELSE NoRow]
  /\ procs = [p \in Procs |-> Idle]
  /\ now = 0
  /\ nops = 0
  /\ hist = [settled |-> [g \in 1..Len(games) |-> 0],
             credited |-> [g \in 1..Len(games) |-> 0],
             firedEmpty |-> [g \in 1..Len(games) |-> 0],
             timers |-> Tiers,
             caught |-> 0,
             claims |-> [u \in Users |-> [day |-> Null, solo |-> FALSE]],
             delivered |-> [update |-> NoUpdate, calls |-> <<>>],
             fullSeen |-> {}]
  /\ listeners = [c \in EventNames |-> <<>>]

UnparsableOwnerSpec == InitUnparsableOwner /\ [][Next]_vars

\* the settlement by p has drawn a player's slot whose ownerId is not a number
WinnerUnparsable(p) ==
  /\ procs[p].win.winnerType = "player"
  /\ parseInt(procs[p].win.winnerId).isNaN

\* C34: when the winning slot is a player's and its ownerId is not a
\* number, the settlement does not throw: the game is written as completed
\* with its result and houseCommission, no ledger record is changed, the
\* final update is published with the result, and spinGame returns true.
C34_UnparsableWinnerIsNotFatal ==
  [][\A p \in Procs :
       LET l == procs[p]
           after == procs'[p]
           g == l.gameId
       IN  /\ (Leaves(p, "spin_write") /\ ~(l.op = "tick" /\ after.result = "caught")
               /\ games'[g].winnerType = "player" /\ parseInt(games'[g].winnerId).isNaN) =>
                 /\ games'[g].status = "completed"
                 /\ games'[g].winningSlot \in 1..games[g].slotCount
                 /\ games'[g].payout # Null
                 /\ games'[g].houseCommission =
                      HouseCommission(games[g].entryCost, filledCount(g, l.seen))
                 /\ games'[g].completedAt # Null
                 /\ points' = points
                 /\ after.pc = "spin_final"
                 /\ WinnerUnparsable(p)'
           /\ (Leaves(p, "spin_final") /\ WinnerUnparsable(p)) =>
                 /\ points' = points
                 /\ games' = games
                 /\ after.pc = "done"
                 /\ after.result = "ok"
                 /\ after.spun = "true"
                 /\ hist'.delivered.update = GameStateUpdate(g, Len(slots), TRUE, l.win)
                 /\ hist'.delivered.update.result.winnerId = l.win.winnerId]_vars

\* a tick has settled game 1 for the player row with the unparsable owner
\* id and has ended: the game is completed, no ledger record has changed
C34_Witness ==
  /\ Completed(1)
  /\ games[1].winnerType = "player"
  /\ games[1].winnerId = UnparsableOwnerId
  /\ \E p \in Procs : /\ procs[p].pc = "done" /\ procs[p].spun = "true"
                       /\ procs[p].emitted.gameId = 1
                       /\ procs[p].emitted.hasResult
                       /\ procs[p].emitted.result.winnerId = UnparsableOwnerId
  /\ hist.credited[1] = 0

\* the rows of gameSlots of game g after the step
SlotIdsAfter(g) == {i \in 1..Len(slots') : slots'[i].gameId = g}

\* C35: a tick whose settlement fails after the write to spinning and before
\* the write to completed leaves the game spinning; a spinning game never
\* becomes filling or full again, a tick's query for the active game never
\* returns it, a tick that works on another game changes neither its row nor
\* its slots, and a tick that finds no filling or full game of the tier goes
\* on to create one.
C35_InterruptedSettlement ==
  [][/\ \A p \in Procs :
          LET l == procs[p]
              after == procs'[p]
          IN  /\ (Leaves(p, "spin_write") /\ l.op = "tick" /\ after.pc = "done"
                  /\ after.result = "caught") =>
                    /\ UNCHANGED <<games, slots, points>>
                    /\ hist.settled[l.gameId] = 0 => games'[l.gameId].status = "spinning"
              /\ (Leaves(p, "goc_select") /\ l.op = "tick" /\ after.pc # "done") =>
                    IF \E g \in GameIds : games[g].tier = l.tier
                                           /\ games[g].status \in {"filling", "full"}
                    THEN /\ after.pc = "tick_state"
                         /\ games[after.gameId].status \in {"filling", "full"}
                    ELSE /\ after.pc = "goc_create"
                         /\ after.gameId \notin GameIds
              /\ (Leaves(p, "goc_create") /\ l.op = "tick" /\ after.pc # "done") =>
                    /\ Len(games') = Len(games) + 1
                    /\ after.gameId = Len(games')
     /\ \A g \in GameIds :
          games[g].status = "spinning" =>
            /\ games'[g].status \in {"spinning", "completed"}
            /\ \A p \in Procs :
                 (procs[p].op = "tick" /\ Active(p) /\ procs'[p] # procs[p]
                  /\ procs[p].gameId # g) =>
                   /\ games'[g] = games[g]
                   /\ SlotIdsAfter(g) = SlotIdsOf(g, Len(slots))
                   /\ procs'[p].gameId # g]_vars

\* the settlement of game 1 by a tick was interrupted, the game is spinning
\* still, and a later tick has created game 2 for the tier and works on it
C35_Witness ==
  /\ Len(games) = 2
  /\ games[1].status = "spinning"
  /\ hist.settled[1] = 0
  /\ hist.caught > 0
  /\ games[2].tier = games[1].tier
  /\ \E p, q \in Procs :
       /\ procs[p].op = "tick" /\ procs[p].pc = "done" /\ procs[p].result = "caught"
       /\ procs[p].gameId = 1
       /\ procs[q].op = "tick" /\ procs[q].gameId = 2

\* C36: buySpot never debits a user for, and never inserts a slot in, a
\* game whose status is spinning or completed.
C36_NoPurchaseAfterFilling ==
  [][\A p \in Procs :
       LET l == procs[p]
       IN  (/\ l.op = "buySpot"
            /\ \/ Leaves(p, "buy_insert") /\ slots' # slots
               \/ Leaves(p, "uub_update") /\ l.uret = "buy_insert" /\ points' # points)
           => games[l.gameId].status \notin {"spinning", "completed"}]_vars

(* ---------------- purchases and daily rewards together ---------------- *)
\* the clients' calls that write the ledger: buySpot, with the settlement it
\* may start, and claimDailyReward
WalletNext ==
  \E p \in Procs :
    \/ \E u \in Users : StartClaimDailyReward(p, u)
    \/ \E b \in BuyInputs, g \in 1..(Len(games) + 1) : StartBuySpot(p, b[1], g, b[2])
    \/ getOrCreateUserPoints(p)
    \/ getOrCreateUserPointsInsert(p)
    \/ getOrCreateUserPointsReselect(p)
    \/ updateUserBalance(p)
    \/ applyDailyReward(p)
    \/ buySpotState(p)
    \/ buySpotInsert(p)
    \/ checkAndSpinIfFull(p)
    \/ spinGameState(p)
    \/ spinGameMark(p)
    \/ spinGameWrite(p)
    \/ spinGameFinal(p)

WalletSpec == Init /\ [][WalletNext]_vars

\* C37: every user's ledger record has balance = totalEarned - totalWagered,
\* whatever the interleaving of updateUserBalance and applyDailyReward.
C37_LedgerIdentity ==
  \A u \in Users :
    points[u].exists => points[u].balance = points[u].totalEarned - points[u].totalWagered

\* C38: every game has at most slotCount slots, whatever the interleaving
\* of buySpot and addBotEntry.
C38_FilledCountWithinSlotCount ==
  \A g \in GameIds : filledCount(g, Len(slots)) <= games[g].slotCount

\* C39: for every settled game, payout + houseCommission is at most the
\* total pot, filledCount * entryCost of the board that was settled.
C39_PayoutWithinPot ==
  [][\A p \in Procs :
       Settles(p)
       => LET g == procs[p].gameId
          IN  games'[g].payout + games'[g].houseCommission
                <= filledCount(g, procs[p].seen) * games[g].entryCost]_vars

\* C40: the newBalance a successful buySpot returns is the user's ledger
\* balance in the store at the moment buySpot returns, also when the
\* purchase filled the board and the settlement credited the buyer.
C40_NewBalanceIsStoredBalance ==
  [][\A p \in Procs :
       (Returns(p) /\ procs'[p].op = "buySpot" /\ procs'[p].result = "ok")
       => procs'[p].newBalance = points'[procs'[p].userId].balance]_vars
====
